---- MODULE Spec2Model ----
(***************************************************************************)
(* youtube_metadata_extractor.py: one run of main().  A Python str is a    *)
(* sequence of one-character strings, a Python list a sequence, a Python   *)
(* dict a function from its keys.  TLC compares a sequence only with a     *)
(* function on integers and a dict only with a function on strings, so     *)
(* Python's None is None where a str or a list may stand and NoneDict      *)
(* where a dict may stand.                                                 *)
(* The two libraries the program calls (yt_dlp, youtube_transcript_api)    *)
(* are its environment: each call returns a value or raises, chosen        *)
(* nondeterministically when the call is made.                             *)
(***************************************************************************)
EXTENDS Integers, Sequences, FiniteSets, TLC

None == [x \in {0} |-> 0]

NoneDict == [none |-> TRUE]

\* Python truth value of a str or list that may be None.
Truthy(v) == v # None /\ v # <<>>

\* Python truth value of a dict that may be None.
TruthyDict(d) == d # NoneDict /\ DOMAIN d # {}

Min(S) == CHOOSE x \in S : \A y \in S : x <= y

(***************************************************************************)
(* Bounds of the model.                                                    *)
(***************************************************************************)
MaxLangs == 2
MaxTracks == 2
MaxSegs == 2

(***************************************************************************)
(* extract_video_id                                                        *)
(***************************************************************************)
IdLen == 11

Digits == {"0", "1", "2", "3", "4", "5", "6", "7", "8", "9"}

Upper == {"A", "B", "C", "D", "E", "F", "G", "H", "I", "J", "K", "L", "M",
          "N", "O", "P", "Q", "R", "S", "T", "U", "V", "W", "X", "Y", "Z"}

Lower == {"a", "b", "c", "d", "e", "f", "g", "h", "i", "j", "k", "l", "m",
          "n", "o", "p", "q", "r", "s", "t", "u", "v", "w", "x", "y", "z"}

\* The character class [0-9A-Za-z_-].
IdChars == Digits \cup Upper \cup Lower \cup {"_", "-"}

\* The literal lit occurs in s at position p.
LitAt(s, p, lit) ==
    /\ p + Len(lit) - 1 <= Len(s)
    /\ \A k \in 1..Len(lit) : s[p + k - 1] = lit[k]

\* ([0-9A-Za-z_-]{11}) matches in s at position p.
IdRunAt(s, p) ==
    /\ p + IdLen - 1 <= Len(s)
    /\ \A k \in p..(p + IdLen - 1) : s[k] \in IdChars

\* A pattern is the sequence of the alternatives of its non-capturing
\* group, each a literal, followed by the capturing group of IdLen
\* characters.  The trailing .* of the first pattern matches anything and
\* does not change group 1.
patterns ==
    << << <<"v", "=">>, <<"/">> >>,
       << <<"e", "m", "b", "e", "d", "/">> >>,
       << <<"y", "o", "u", "t", "u", ".", "b", "e", "/">> >> >>

AltAt(s, p, alt) == LitAt(s, p, alt) /\ IdRunAt(s, p + Len(alt))

\* re.search(pattern, s) followed by match.group(1): the leftmost position
\* where an alternative matches, the first alternative that matches there;
\* None when there is no match.
re_search_group1(pattern, s) ==
    LET hits == {p \in 1..Len(s) :
                    \E a \in 1..Len(pattern) : AltAt(s, p, pattern[a])}
    IN  IF hits = {} THEN None
        ELSE LET p == Min(hits)
                 a == Min({b \in 1..Len(pattern) : AltAt(s, p, pattern[b])})
                 g == p + Len(pattern[a])
             IN  SubSeq(s, g, g + IdLen - 1)

\* The index of the pattern the for loop returns from, 0 when it falls
\* through to return None.
FirstMatchingPattern(u) ==
    LET m == {r \in 1..Len(patterns) : re_search_group1(patterns[r], u) # None}
    IN  IF m = {} THEN 0 ELSE Min(m)

extract_video_id(u) ==
    IF FirstMatchingPattern(u) = 0 THEN None
    ELSE re_search_group1(patterns[FirstMatchingPattern(u)], u)

(***************************************************************************)
(* Inputs: the URL given on the command line or typed at the prompt.       *)
(***************************************************************************)
Https == <<"h", "t", "t", "p", "s", ":", "/", "/">>

WwwYoutubeCom ==
    <<"w", "w", "w", ".", "y", "o", "u", "t", "u", "b", "e", ".", "c", "o", "m">>

WatchV == <<"/", "w", "a", "t", "c", "h", "?", "v", "=">>

EmbedPath == <<"/", "e", "m", "b", "e", "d", "/">>

YoutuBe == <<"y", "o", "u", "t", "u", ".", "b", "e">>

SampleId == <<"d", "Q", "w", "4", "w", "9", "W", "g", "X", "c", "Q">>

ExampleVideo ==
    <<"e", "x", "a", "m", "p", "l", "e", ".", "c", "o", "m", "/", "v", "i", "d", "e", "o">>

FeedSubscriptions ==
    <<"/", "f", "e", "e", "d", "/", "s", "u", "b", "s", "c", "r", "i", "p", "t", "i", "o", "n", "s">>

WatchUrl == Https \o WwwYoutubeCom \o WatchV \o SampleId

EmbedUrl == Https \o WwwYoutubeCom \o EmbedPath \o SampleId

ShortUrl == Https \o YoutuBe \o <<"/">> \o SampleId

OtherSiteUrl == Https \o ExampleVideo

FeedUrl == Https \o WwwYoutubeCom \o FeedSubscriptions

Urls == {WatchUrl, EmbedUrl, ShortUrl, OtherSiteUrl, FeedUrl}

(***************************************************************************)
(* Inputs: --languages.  nargs='+' gives at least one code; the default is *)
(* ['en', 'hi'].                                                           *)
(***************************************************************************)
En == <<"e", "n">>

Hi == <<"h", "i">>

Codes == {En, Hi}

DefaultLanguages == <<En, Hi>>

LangLists == UNION {[1..n -> Codes] : n \in 1..MaxLangs}

\* --output: absent, or a path.
OutPath == <<"o", ".", "j", "s", "o", "n">>

Outputs == {None, OutPath}

(***************************************************************************)
(* What the metadata lookup can return: an info dict; a value is opaque to *)
(* the program and stands here as <<key>>.                                 *)
(***************************************************************************)
InfoKeys == {"title", "description", "view_count", "upload_date", "duration",
             "uploader", "channel_id", "channel_url", "thumbnail",
             "categories", "tags", "like_count"}

FullInfo == [k \in InfoKeys |-> <<k>>]

SparseInfo == [k \in {"title"} |-> <<k>>]

Infos == {FullInfo, SparseInfo}

\* What ydl.extract_info returns when it does not raise: None (an error
\* ignored under ignoreerrors) or the info dict.
LookupReturns == {NoneDict} \cup Infos

(***************************************************************************)
(* What the caption service can return.                                    *)
(***************************************************************************)
Track(code, generated, translatable) ==
    [language_code |-> code, is_generated |-> generated,
     is_translatable |-> translatable]

\* The tracks a listing is made of: each language human-authored and
\* machine-generated, some translatable and some not.
Descriptors ==
    {Track(En, FALSE, TRUE), Track(En, TRUE, TRUE),
     Track(Hi, FALSE, FALSE), Track(Hi, TRUE, TRUE)}

TrackLists == UNION {[1..n -> Descriptors] : n \in 0..MaxTracks}

Texts == << <<"a">>, <<"b", "c">> >>

Segment(k, t) == [start |-> k, duration |-> 1, text |-> t]

\* The segment lists a fetch returns: of every length up to MaxSegs, the
\* empty list included, with texts that differ from one segment to the
\* next.
Transcripts ==
    {[k \in 1..n |-> Segment(k, Texts[((k + r) % 2) + 1])] :
        n \in 0..MaxSegs, r \in 0..1}

HasTrack(list, code) == \E j \in 1..Len(list) : list[j].language_code = code

\* YouTubeTranscriptApi.get_transcript(video_id, languages=[lang]) returns
\* the segments of a track of that language, and can only raise when the
\* video has no track of that language.
CanReturn(list, lang) == HasTrack(list, lang)

(***************************************************************************)
(* Pure helpers of the program.                                            *)
(***************************************************************************)
\* dict.get(key): None for a missing key.
dict_get(d, k) == IF k \in DOMAIN d THEN d[k] ELSE None

\* Mutant: a None from extract_info is read as an info dict without keys.
InfoUsable_Always(info) == TRUE

\* info.get raises AttributeError when extract_info returned None.
InfoUsable(info) == info # NoneDict

RECURSIVE join_Reversed(_, _)
\* Mutant: the strings are joined last to first.
join_Reversed(sep, strs) ==
    IF Len(strs) = 0 THEN <<>>
    ELSE IF Len(strs) = 1 THEN strs[1]
    ELSE join_Reversed(sep, Tail(strs)) \o sep \o strs[1]

RECURSIVE join(_, _)
\* sep.join(strs)
join(sep, strs) ==
    IF Len(strs) = 0 THEN <<>>
    ELSE IF Len(strs) = 1 THEN strs[1]
    ELSE strs[1] \o sep \o join(sep, Tail(strs))

\* The info key each metadata key is read from.
InfoKeyOf ==
    [title |-> "title", description |-> "description", views |-> "view_count",
     publish_date |-> "upload_date", length |-> "duration",
     author |-> "uploader", channel_id |-> "channel_id",
     channel_url |-> "channel_url", thumbnail_url |-> "thumbnail",
     categories |-> "categories", tags |-> "tags", likes |-> "like_count"]

MetadataKeys == {"video_id"} \cup DOMAIN InfoKeyOf

TranscriptKeys == {"transcript", "transcript_language", "transcript_text"}

MakeMetadata(vid, info) ==
    [k \in MetadataKeys |->
        IF k = "video_id" THEN vid ELSE dict_get(info, InfoKeyOf[k])]

\* [item["text"] for item in transcript]
TextsOf(transcript) == [k \in 1..Len(transcript) |-> transcript[k].text]

transcript_text(transcript) == join(<<" ">>, TextsOf(transcript))

\* if transcript: ... (the three assignments)
MergeTranscript(m, transcript, lang) ==
    IF Truthy(transcript)
    THEN [k \in DOMAIN m \cup TranscriptKeys |->
            CASE k = "transcript" -> transcript
              [] k = "transcript_language" -> lang
              [] k = "transcript_text" -> transcript_text(transcript)
              [] OTHER -> m[k]]
    ELSE m

\* Mutant: the tier takes the first track whatever its flag.
FirstTrack_AnyFlag(list, generated) == IF Len(list) = 0 THEN 0 ELSE 1

\* The index of the first track a tier's loop fetches, 0 when it has none.
FirstTrack(list, generated) ==
    LET c == {j \in 1..Len(list) : list[j].is_generated = generated}
    IN  IF c = {} THEN 0 ELSE Min(c)

\* Mutant: the languages are tried last to first.
PreferredLang_Reversed(langs, i) == langs[Len(langs) - i + 1]

\* The language the loop over languages tries at its i-th iteration.
PreferredLang(langs, i) == langs[i]

\* A print call: its format and its argument.
Line(fmt, arg) == [fmt |-> fmt, arg |-> arg]

\* The lines of the listing of available tracks.
AvailableLines(list) ==
    <<Line("Available transcript languages:", None)>>
    \o [j \in 1..Len(list) |-> Line(" - ", list[j])]

\* The lines display_metadata prints.
display_metadata(m) ==
    IF ~TruthyDict(m) THEN <<>>
    ELSE <<Line("--- Video Metadata ---", None),
           Line("Title: ", m["title"]),
           Line("Author: ", m["author"]),
           Line("Views: ", m["views"]),
           Line("Publish Date: ", m["publish_date"]),
           Line("Length: ", m["length"]),
           Line("--- Description ---", None),
           Line("", m["description"])>>
         \o (IF Truthy(dict_get(m, "tags"))
             THEN <<Line("--- Tags ---", None), Line("", m["tags"])>>
             ELSE <<>>)
         \o (IF Truthy(dict_get(m, "transcript"))
             THEN <<Line("--- Transcript (language, first 3 segments) ---",
                         m["transcript_language"])>>
                  \o [k \in 1..(IF Len(m["transcript"]) < 3
                                THEN Len(m["transcript"]) ELSE 3) |->
                         Line("[start]: text", m["transcript"][k])]
                  \o <<Line("...[truncated]...", None)>>
             ELSE <<>>)

(***************************************************************************)
(* State.                                                                  *)
(***************************************************************************)
NotReturned == [returned |-> FALSE]

NoTranscript == [transcript |-> None, lang |-> None]

VARIABLES
    url,              \* the URL main passes to extract_youtube_metadata
    languages,        \* args.languages
    output,           \* args.output
    pc,               \* the call of a library or the step main is at
    video_id,         \* extract_youtube_metadata's video_id
    metadata,         \* the dict being assembled, then main's metadata
    transcript_list,  \* get_video_transcript's transcript_list
    lang_i,           \* the iteration of the loop over languages
    result,           \* what get_video_transcript returned
    calls,            \* history: the library calls made, in order
    stdout,           \* the print calls made, in order
    exit_status,      \* the status the process exits with
    uncaught,         \* the exception that left main, "none" if none
    file              \* what was written to the --output file

vars == <<url, languages, output, pc, video_id, metadata, transcript_list, lang_i,
          result, calls, stdout, exit_status, uncaught, file>>

\* A library call: its argument, whether it returned, and what it returned.
Call(op, arg, ok, ret) == [op |-> op, arg |-> arg, ok |-> ok, ret |-> ret]

\* main after parse_args and the choice of url.
Init ==
    /\ url \in Urls
    /\ languages \in LangLists
    /\ output \in Outputs
    /\ pc = "extract_id"
    /\ video_id = None
    /\ metadata = NoneDict
    /\ transcript_list = None
    /\ lang_i = 1
    /\ result = NotReturned
    /\ calls = <<>>
    /\ stdout = <<>>
    /\ exit_status = 0
    /\ uncaught = "none"
    /\ file = NoneDict

(***************************************************************************)
(* Exceptions.  Handler names the except clause that catches an exception  *)
(* raised at a site, by the nesting of the try statements; "uncaught" is   *)
(* an exception no clause catches, which leaves main: the interpreter      *)
(* prints the traceback and exits with status 1.                           *)
(***************************************************************************)
\* Mutant: get_video_transcript without its outer try.
Handler_NoOuterTry(site) ==
    CASE site = "video_id" -> "uncaught"
      [] site = "extract_info" -> "except_146"
      [] site = "list_transcripts" -> "except_146"
      [] site = "get_transcript" -> "except_53"
      [] site = "fetch_manual" -> "except_64"
      [] site = "fetch_generated" -> "except_74"
      [] site = "open" -> "uncaught"

Handler(site) ==
    CASE site = "video_id" -> "uncaught"
      [] site = "extract_info" -> "except_146"
      [] site = "list_transcripts" -> "except_86"
      [] site = "get_transcript" -> "except_53"
      [] site = "fetch_manual" -> "except_64"
      [] site = "fetch_generated" -> "except_74"
      [] site = "open" -> "uncaught"

LocalHandlers == {"except_53", "except_64", "except_74"}

\* Where control is and what the run has produced: the part of the state
\* a handler changes.
Here(at) ==
    [pc |-> at, result |-> result, metadata |-> metadata, out |-> <<>>,
     uncaught |-> uncaught, exit_status |-> exit_status]

Apply(c) ==
    /\ pc' = c.pc
    /\ result' = c.result
    /\ metadata' = c.metadata
    /\ stdout' = stdout \o c.out
    /\ uncaught' = c.uncaught
    /\ exit_status' = c.exit_status

\* An exception of class exc raised at site; local is what the except
\* clause of the innermost try does when it is that clause which catches.
Raise(site, exc, local) ==
    LET h == Handler(site)
    IN  CASE h \in LocalHandlers -> local
          [] h = "except_86" ->
                [Here("merge") EXCEPT
                    !.result = NoTranscript,
                    !.out = <<Line("Error retrieving transcript: ", None)>>]
          [] h = "except_146" ->
                [Here("main_check") EXCEPT
                    !.metadata = NoneDict,
                    !.out = <<Line("Error extracting metadata: ", None)>>]
          [] OTHER ->
                [Here("done") EXCEPT !.uncaught = exc, !.exit_status = 1]

\* Mutant: the check of video_id is missing.
IdMissing_Never(v) == FALSE

\* if not video_id
IdMissing(v) == ~Truthy(v)

\* extract_youtube_metadata up to the lookup.
ExtractId ==
    /\ pc = "extract_id"
    /\ video_id' = extract_video_id(url)
    /\ IF IdMissing(video_id')
       THEN Apply(Raise("video_id", "ValueError", Here("done")))
       ELSE Apply(Here("lookup"))
    /\ UNCHANGED <<url, languages, output, transcript_list, lang_i, calls, file>>

\* ydl.extract_info and the metadata dict.
Lookup ==
    /\ pc = "lookup"
    /\ \E raised \in BOOLEAN, info \in LookupReturns :
        /\ calls' = Append(calls, Call("extract_info", url, ~raised,
                                       IF raised THEN NoneDict ELSE info))
        /\ IF raised
           THEN Apply(Raise("extract_info", "DownloadError", Here("done")))
           ELSE IF ~InfoUsable(info)
           THEN Apply(Raise("extract_info", "AttributeError", Here("done")))
           ELSE Apply([Here("list") EXCEPT
                          !.metadata = MakeMetadata(video_id, info)])
    /\ UNCHANGED <<url, languages, output, video_id, transcript_list, lang_i, file>>

\* get_video_transcript: YouTubeTranscriptApi.list_transcripts.
ListTranscripts ==
    /\ pc = "list"
    /\ \E raised \in BOOLEAN, list \in TrackLists :
        /\ calls' = Append(calls, Call("list_transcripts", video_id, ~raised,
                                       IF raised THEN None ELSE list))
        /\ IF raised
           THEN /\ Apply(Raise("list_transcripts", "Exception", Here("done")))
                /\ UNCHANGED transcript_list
           ELSE /\ Apply(Here("preferred"))
                /\ transcript_list' = list
    /\ lang_i' = 1
    /\ UNCHANGED <<url, languages, output, video_id, file>>

\* One iteration of the loop over languages.
FetchPreferred ==
    /\ pc = "preferred"
    /\ LET lang == PreferredLang(languages, lang_i)
           more == IF lang_i < Len(languages) THEN "preferred" ELSE "manual"
       IN  \E raised \in BOOLEAN, data \in Transcripts :
            /\ raised \/ CanReturn(transcript_list, lang)
            /\ calls' = Append(calls, Call("get_transcript", lang, ~raised,
                                           IF raised THEN None ELSE data))
            /\ IF raised
               THEN /\ Apply(Raise("get_transcript", "Exception", Here(more)))
                    /\ lang_i' = lang_i + 1
               ELSE /\ Apply([Here("merge") EXCEPT
                                 !.result = [transcript |-> data, lang |-> lang]])
                    /\ UNCHANGED lang_i
    /\ UNCHANGED <<url, languages, output, video_id, transcript_list, file>>

\* A tier's loop over transcript_list: the first track with the flag is
\* fetched and returned; without such a track the loop ends.
FetchTier(generated, site, after) ==
    LET j == FirstTrack(transcript_list, generated)
    IN  IF j = 0
        THEN /\ Apply(Here(after))
             /\ UNCHANGED calls
        ELSE \E raised \in BOOLEAN, data \in Transcripts :
              /\ calls' = Append(calls, Call("fetch", j, ~raised,
                                         IF raised THEN None ELSE data))
              /\ IF raised
                 THEN Apply(Raise(site, "Exception", Here(after)))
                 ELSE Apply([Here("merge") EXCEPT
                                !.result =
                                    [transcript |-> data,
                                     lang |-> transcript_list[j].language_code]])

\* Mutant: a failed fetch of the human-authored tier is tried again.
FetchManual_Retry ==
    /\ pc = "manual"
    /\ FetchTier(FALSE, "fetch_manual", "manual")
    /\ UNCHANGED <<url, languages, output, video_id, transcript_list, lang_i, file>>

\* "try to get any manual transcript"
FetchManual ==
    /\ pc = "manual"
    /\ FetchTier(FALSE, "fetch_manual", "generated")
    /\ UNCHANGED <<url, languages, output, video_id, transcript_list, lang_i, file>>

\* "try to get any generated transcript"
FetchGenerated ==
    /\ pc = "generated"
    /\ FetchTier(TRUE, "fetch_generated", "report")
    /\ UNCHANGED <<url, languages, output, video_id, transcript_list, lang_i, file>>

\* The listing of the available tracks and return None, None.
Report ==
    /\ pc = "report"
    /\ Apply([Here("merge") EXCEPT
                 !.result = NoTranscript,
                 !.out = AvailableLines(transcript_list)])
    /\ UNCHANGED <<url, languages, output, video_id, transcript_list, lang_i, calls, file>>

\* extract_youtube_metadata after get_video_transcript returned.
Merge ==
    /\ pc = "merge"
    /\ Apply([Here("main_check") EXCEPT
                 !.metadata = MergeTranscript(metadata, result.transcript, result.lang)])
    /\ UNCHANGED <<url, languages, output, video_id, transcript_list, lang_i, calls, file>>

\* main after extract_youtube_metadata returned: save_to_json when
\* args.output is set, display_metadata otherwise; the failure message and
\* sys.exit(1) when metadata is None.
MainFinish ==
    /\ pc = "main_check"
    /\ \E opened \in BOOLEAN :
        IF TruthyDict(metadata)
        THEN IF Truthy(output)
             THEN IF opened
                  THEN /\ file' = metadata
                       /\ Apply([Here("done") EXCEPT
                                    !.out = <<Line("Metadata saved to ", output)>>])
                  ELSE /\ Apply(Raise("open", "OSError", Here("done")))
                       /\ UNCHANGED file
             ELSE /\ Apply([Here("done") EXCEPT !.out = display_metadata(metadata)])
                  /\ UNCHANGED file
        ELSE /\ Apply([Here("done") EXCEPT
                          !.out = <<Line("Failed to extract metadata.", None)>>,
                          !.exit_status = 1])
             /\ UNCHANGED file
    /\ UNCHANGED <<url, languages, output, video_id, transcript_list, lang_i, calls>>

Next ==
    \/ ExtractId
    \/ Lookup
    \/ ListTranscripts
    \/ FetchPreferred
    \/ FetchManual
    \/ FetchGenerated
    \/ Report
    \/ Merge
    \/ MainFinish

Spec == Init /\ [][Next]_vars

(***************************************************************************)
(* What the claims speak of.                                               *)
(***************************************************************************)
CallsOf(op) == SelectSeq(calls, LAMBDA c : c.op = op)

PreferredCalls == CallsOf("get_transcript")

TierCalls(generated) ==
    SelectSeq(calls, LAMBDA c :
        c.op = "fetch" /\ transcript_list[c.arg].is_generated = generated)

SomeCall(op, ok) == \E k \in 1..Len(calls) : calls[k].op = op /\ calls[k].ok = ok

ListingOk == SomeCall("list_transcripts", TRUE)

ListingFailed == SomeCall("list_transcripts", FALSE)

\* get_video_transcript is no longer running.
SelectorLeft == pc \in {"merge", "main_check", "done"}

SelectorReturned == result # NotReturned

LookupFailed ==
    \E k \in 1..Len(calls) :
        /\ calls[k].op = "extract_info"
        /\ ~calls[k].ok \/ calls[k].ret = NoneDict

Printed(fmt) == \E k \in 1..Len(stdout) : stdout[k].fmt = fmt

Displayed == Printed("--- Video Metadata ---")

Saved == file # NoneDict \/ Printed("Metadata saved to ")

NoPreferredTrack ==
    \A k \in 1..Len(languages) : ~HasTrack(transcript_list, languages[k])

HumanTrackExists ==
    \E k \in 1..Len(transcript_list) : ~transcript_list[k].is_generated

\* C1: when the listing succeeded, the preferred codes are fetched in the
\* order given, one fetch per entry, no code is fetched after the first
\* successful fetch, and that fetch's segments and code are what
\* get_video_transcript returns, whatever the flags of the tracks.
C1_PreferredInOrder ==
    LET P == PreferredCalls
    IN  /\ Len(P) <= Len(languages)
        /\ Len(P) > 0 => ListingOk
        /\ \A k \in 1..Len(P) : P[k].arg = languages[k]
        /\ \A k \in 1..Len(P) : k < Len(P) => ~P[k].ok
        /\ (Len(P) > 0 /\ P[Len(P)].ok) =>
              /\ SelectorLeft
              /\ result = [transcript |-> P[Len(P)].ret, lang |-> languages[Len(P)]]
              /\ Len(CallsOf("fetch")) = 0

\* C1 witness: en then hi preferred, en machine-generated and hi
\* human-authored, and en is what was returned.
C1_Witness ==
    /\ pc = "done"
    /\ languages = DefaultLanguages
    /\ transcript_list = <<Track(Hi, FALSE, FALSE), Track(En, TRUE, TRUE)>>
    /\ SelectorReturned
    /\ result.lang = En
    /\ Len(PreferredCalls) = 1

\* C2 as stated: no preferred-language track but a human-authored track:
\* a human-authored track is what get_video_transcript returns.
C2_HumanTrackReturned ==
    (SelectorLeft /\ ListingOk /\ NoPreferredTrack /\ HumanTrackExists) =>
        /\ SelectorReturned
        /\ result.transcript # None
        /\ Len(TierCalls(FALSE)) > 0
        /\ calls[Len(calls)] = TierCalls(FALSE)[Len(TierCalls(FALSE))]
        /\ calls[Len(calls)].ok

\* C2 amended: no preferred-language track but a human-authored track: the
\* first human-authored track of the list is fetched before any
\* machine-generated one; when that fetch succeeds, its segments and code
\* are returned and no machine-generated track is fetched; when it fails,
\* no other human-authored track is fetched.
C2_FirstHumanTrackTried ==
    (ListingOk /\ NoPreferredTrack /\ HumanTrackExists
        /\ pc \in {"generated", "report", "merge", "main_check", "done"}) =>
        LET H == TierCalls(FALSE)
            j == Min({k \in 1..Len(transcript_list) :
                        ~transcript_list[k].is_generated})
            first == calls[Len(PreferredCalls) + 3]
        IN  /\ Len(H) = 1
            /\ H[1].arg = j
            /\ first = H[1]
            /\ Len(PreferredCalls) = Len(languages)
            /\ H[1].ok =>
                  /\ Len(TierCalls(TRUE)) = 0
                  /\ result = [transcript |-> H[1].ret,
                               lang |-> transcript_list[j].language_code]
            /\ Len(TierCalls(TRUE)) > 0 => ~H[1].ok

\* C2 witness: hi human-authored listed after hi machine-generated, en
\* preferred, and the human-authored hi track returned.
C2_Witness ==
    /\ pc = "done"
    /\ languages = <<En>>
    /\ transcript_list = <<Track(Hi, TRUE, TRUE), Track(Hi, FALSE, FALSE)>>
    /\ SelectorReturned
    /\ result.lang = Hi
    /\ Len(TierCalls(FALSE)) = 1
    /\ TierCalls(FALSE)[1].arg = 2
    /\ Len(TierCalls(TRUE)) = 0

\* C3: get_video_transcript always returns, with a (transcript, language)
\* pair or (None, None), whatever raises; no exception of a caption call
\* leaves it; a failed listing gives (None, None) without any fetch.
C3_SelectorNeverRaises ==
    /\ SelectorReturned =>
          \/ result = NoTranscript
          \/ result.transcript # None /\ result.lang # None
    /\ (SomeCall("list_transcripts", TRUE) \/ SomeCall("list_transcripts", FALSE))
          /\ SelectorLeft => SelectorReturned
    /\ uncaught \in {"none", "ValueError", "OSError"}
    /\ ListingFailed =>
          /\ SelectorLeft
          /\ result = NoTranscript
          /\ Len(PreferredCalls) = 0
          /\ Len(CallsOf("fetch")) = 0
          /\ metadata # NoneDict

\* C3 witness: the listing raised and the run ended normally.
C3_Witness ==
    /\ pc = "done"
    /\ ListingFailed
    /\ result = NoTranscript
    /\ exit_status = 0

\* C4 as stated: after a successful lookup a merged result is returned with
\* the thirteen metadata keys, with all three transcript fields when
\* get_video_transcript returned a transcript and none of them when it
\* returned (None, None).
C4_TranscriptFieldsFollowSelector ==
    (pc \in {"main_check", "done"} /\ SelectorReturned) =>
        /\ metadata # NoneDict
        /\ MetadataKeys \subseteq DOMAIN metadata
        /\ result.transcript # None => TranscriptKeys \subseteq DOMAIN metadata
        /\ result = NoTranscript => TranscriptKeys \cap DOMAIN metadata = {}

\* C5: after a failed metadata lookup (the call raised or returned None)
\* nothing is saved or displayed, no caption call is made, and the run ends
\* with status 1.
C5_LookupFailureExitsOne ==
    LookupFailed =>
        /\ pc \in {"main_check", "done"}
        /\ metadata = NoneDict
        /\ ~Saved
        /\ ~Displayed
        /\ Len(calls) = 1
        /\ pc = "done" => exit_status = 1 /\ uncaught = "none"

\* C5 witness: --output given, extract_info returned None and the run ended
\* with status 1.
C5_Witness ==
    /\ pc = "done"
    /\ output = OutPath
    /\ LookupFailed
    /\ calls[1].ok
    /\ exit_status = 1

\* C6 as stated: on every failure of extract_youtube_metadata, the invalid
\* URL and the failed lookup alike, main prints "Failed to extract
\* metadata." and then exits with a non-zero status.
C6_FailureMessageOnEveryFailure ==
    (pc = "done" /\ (video_id = None \/ LookupFailed)) =>
        /\ exit_status # 0
        /\ Printed("Failed to extract metadata.")

\* What a step leaves true of the identifier.
C7_Step ==
    /\ url' = url
    /\ output' = output
    /\ pc = "extract_id" => video_id' = extract_video_id(url)
    /\ pc # "extract_id" => video_id' = video_id
    /\ video_id' = None =>
          /\ pc' = "done"
          /\ calls' = <<>>
          /\ metadata' = NoneDict
          /\ ~Saved'
          /\ ~Displayed'
    /\ metadata' # NoneDict =>
          /\ metadata'["video_id"] = video_id'
          /\ video_id' # None
    /\ file' # NoneDict => file'["video_id"] = video_id'

\* C7: when no identifier is derived the run ends there: no library is
\* called and nothing is produced, written or displayed; video_id is
\* extract_video_id(url) from then on, and it is the video_id of every
\* merged result and of every file written.
C7_NoIdNoProcessing == [][C7_Step]_vars

\* C7 witness: a URL without identifier ended the run before any call.
C7_Witness ==
    /\ pc = "done"
    /\ video_id = None
    /\ extract_video_id(url) = None
    /\ calls = <<>>

\* Where the k-th text starts in the joined string, less one.
RECURSIVE Offset(_, _)
Offset(T, k) == IF k = 1 THEN 0 ELSE Offset(T, k - 1) + Len(T[k - 1].text) + 1

\* The last call that returned segments.
LastFetched ==
    LET ok == SelectSeq(calls, LAMBDA c :
                  c.op \in {"get_transcript", "fetch"} /\ c.ok)
    IN  ok[Len(ok)].ret

\* C8: transcript_text, when present, holds the texts of the segments of
\* transcript one after the other in segment order, with exactly one space
\* between two of them and nothing else; transcript is the segment list as
\* the fetch returned it.
C8_TranscriptTextIsJoin ==
    (metadata # NoneDict /\ "transcript_text" \in DOMAIN metadata) =>
        LET T == metadata["transcript"]
            X == metadata["transcript_text"]
        IN  /\ T = LastFetched
            /\ Len(T) > 0
            /\ Len(X) = Offset(T, Len(T)) + Len(T[Len(T)].text)
            /\ \A k \in 1..Len(T) :
                  /\ SubSeq(X, Offset(T, k) + 1, Offset(T, k) + Len(T[k].text))
                        = T[k].text
                  /\ k > 1 => X[Offset(T, k)] = " "

\* C8 witness: a merged result with two segments of different texts.
C8_Witness ==
    /\ pc = "done"
    /\ metadata # NoneDict
    /\ "transcript_text" \in DOMAIN metadata
    /\ Len(metadata["transcript"]) = 2
    /\ metadata["transcript"][1].text # metadata["transcript"][2].text

\* The three URL shapes: a watch URL with v=, an embed URL, a youtu.be URL.
Shapes ==
    << <<"w", "a", "t", "c", "h", "?", "v", "=">>,
       <<"/", "e", "m", "b", "e", "d", "/">>,
       <<"y", "o", "u", "t", "u", ".", "b", "e", "/">> >>

ShapeHits(u, r) == {p \in 1..Len(u) : AltAt(u, p, Shapes[r])}

\* The token at the expected position of the first shape u has, None when
\* it has none of them.
ExpectedId(u) ==
    LET m == {r \in 1..Len(Shapes) : ShapeHits(u, r) # {}}
    IN  IF m = {} THEN None
        ELSE LET r == Min(m)
                 g == Min(ShapeHits(u, r)) + Len(Shapes[r])
             IN  SubSeq(u, g, g + IdLen - 1)

\* C9 as stated: extract_video_id returns the token of a URL of one of the
\* three shapes and None for a URL of none of them.
C9_IdOnlyFromKnownShapes ==
    pc # "extract_id" => video_id = ExpectedId(url)

\* C10: one call of get_video_transcript fetches at most once per entry of
\* languages, at most once in the human-authored tier and at most once in
\* the machine-generated tier, so at most len(languages) + 2 times; and the
\* listing of available tracks is printed only after a successful listing
\* and no successful fetch.
C10_EachTierOnce ==
    /\ Len(PreferredCalls) <= Len(languages)
    /\ \A k \in 1..Len(PreferredCalls) : PreferredCalls[k].arg = languages[k]
    /\ ListingOk =>
          /\ Len(TierCalls(FALSE)) <= 1
          /\ Len(TierCalls(TRUE)) <= 1
    /\ ~ListingOk => Len(CallsOf("fetch")) = 0
    /\ Len(PreferredCalls) + Len(CallsOf("fetch")) <= Len(languages) + 2
    /\ Printed("Available transcript languages:") =>
          /\ ListingOk
          /\ ~SomeCall("get_transcript", TRUE)
          /\ ~SomeCall("fetch", TRUE)
          /\ result = NoTranscript

\* C10 witness: every tier was tried once, every fetch failed, and the
\* available tracks were listed.
C10_Witness ==
    /\ pc = "done"
    /\ Printed("Available transcript languages:")
    /\ Len(PreferredCalls) = Len(languages)
    /\ Len(TierCalls(FALSE)) = 1
    /\ Len(TierCalls(TRUE)) = 1
    /\ Len(languages) = 2

====
